---- MODULE Spec2Model ----
(***************************************************************************)
(* KitchenOS: the shopping-list derivation functions of                    *)
(* src/lib/shopping-utils.ts and the planner helper getNextAvailableDay    *)
(* (lib/planner-utils), and the checked state of ShoppingView with its     *)
(* persistence in localStorage.                                            *)
(*                                                                         *)
(* JavaScript strings are sequences of one-character strings, so that the  *)
(* template literal `${category}-${index}` is a real concatenation.  A     *)
(* JavaScript object is a record [type |-> "object", entries |-> e] whose  *)
(* entries are <<key, value>> pairs in own-property order (integer-like    *)
(* keys in ascending numeric order first, then the other keys in insertion *)
(* order); null is the record Null.                                        *)
(***************************************************************************)
EXTENDS Integers, Sequences, FiniteSets, TLC

VARIABLES
    shoppingList,    \* ShoppingList | null          (argument)
    checkedItems,    \* Record<string, boolean>      (argument)
    remaining,       \* RemainingItemsByCategory     (result / argument)
    remainingCount,  \* number                       (result)
    printLayout,     \* PrintLayoutConfig            (result)
    shareText,       \* string                       (result)
    assignedDays,    \* string[]                     (argument)
    weekDays,        \* string[]                     (argument)
    currentDay,      \* string                       (argument)
    nextDay,         \* string | null, with the line of the return that gave it
    scanReads,       \* indices of weekDays read by the scan of the last call
    listSignature,   \* string | null               (prop of ShoppingView)
    storage,         \* localStorage item under CHECKED_STORAGE_KEY
    effects,         \* effects of the last render that have not run yet
    pendingChecked,  \* <<state>> the queued setCheckedItems calls produce, or <<>>
    origin,          \* history: signatures under which the flags were recorded
    calls,           \* calls the last step made to the toast, share and print APIs
    initialDays,     \* history: assignedDays before the first press of the button
    presses,         \* history: presses of the next-day button since then
    plannerRecipes,  \* PlannerRecipe[]             (state of KitchenOSApp)
    shoppingListMeta,        \* ShoppingListMeta | null (state of KitchenOSApp)
    isGeneratingList,        \* boolean                 (state of KitchenOSApp)
    lastAutoRequestSignature, \* <<signature>> or <<>> for null (ref)
    timeout,         \* <<plannerRecipes of the scheduled callback>>, or <<>>
    requests,        \* calls of generateShoppingList that have not settled
    pc               \* position of the caller

\* The variables of ShoppingView besides its list and its checked map
viewVars == <<listSignature, storage, effects, pendingChecked, origin, calls>>

\* The variables of the page and of the planner view
appVars == <<plannerRecipes, shoppingListMeta, isGeneratingList,
             lastAutoRequestSignature, timeout, requests>>

pageVars == <<initialDays, presses, appVars>>

vars == <<shoppingList, checkedItems, remaining, remainingCount, printLayout,
          shareText, assignedDays, weekDays, currentDay, nextDay, scanReads,
          viewVars, pageVars, pc>>

----------------------------------------------------------------------------
(* Bounds of the checked instances *)

MaxItems == 2
MaxChecked == 2
MaxLayoutItems == 50
MaxWeek == 3
MaxAssigned == 3

----------------------------------------------------------------------------
(* JavaScript values *)

Null == [type |-> "null"]
TypeError == [type |-> "TypeError"]
JSObject(entries) == [type |-> "object", entries |-> entries]
EmptyObject == JSObject(<<>>)

Digits == <<"0", "1", "2", "3", "4", "5", "6", "7", "8", "9">>
DigitSet == {Digits[i] : i \in 1..10}

\* String(index), as the template literal converts a number
RECURSIVE NumberToString(_)
NumberToString(n) ==
    IF n < 10 THEN <<Digits[n + 1]>>
    ELSE NumberToString(n \div 10) \o <<Digits[(n % 10) + 1]>>

DigitValue(d) == (CHOOSE i \in 1..10 : Digits[i] = d) - 1

RECURSIVE StringToNumber(_)
StringToNumber(s) ==
    IF Len(s) = 0 THEN 0
    ELSE 10 * StringToNumber(SubSeq(s, 1, Len(s) - 1)) + DigitValue(s[Len(s)])

\* A property key that is a canonical array index ("0", "7", "12", not "07")
IsArrayIndex(s) ==
    /\ Len(s) > 0
    /\ \A i \in 1..Len(s) : s[i] \in DigitSet
    /\ (Len(s) > 1 => s[1] # "0")

HasKey(entries, key) == \E i \in 1..Len(entries) : entries[i][1] = key

\* Position at which a new integer-like key enters the own-property order
IndexKeySlot(entries, key) ==
    Cardinality({i \in 1..Len(entries) :
        /\ IsArrayIndex(entries[i][1])
        /\ StringToNumber(entries[i][1]) < StringToNumber(key)}) + 1

\* CreateDataProperty: an existing key keeps its place, a new integer-like key
\* is ordered numerically before the string keys, any other key goes last
CreateDataProperty(entries, key, value) ==
    IF HasKey(entries, key)
    THEN [i \in 1..Len(entries) |->
            IF entries[i][1] = key THEN <<key, value>> ELSE entries[i]]
    ELSE IF IsArrayIndex(key)
    THEN LET at == IndexKeySlot(entries, key)
         IN SubSeq(entries, 1, at - 1) \o << <<key, value>> >>
                \o SubSeq(entries, at, Len(entries))
    ELSE Append(entries, <<key, value>>)

RECURSIVE DefineAll(_, _)
DefineAll(acc, pairs) ==
    IF Len(pairs) = 0 THEN acc
    ELSE DefineAll(CreateDataProperty(acc, pairs[1][1], pairs[1][2]), Tail(pairs))

ObjectFromEntries(pairs) == JSObject(DefineAll(<<>>, pairs))

ObjectEntries(obj) == obj.entries

ObjectValues(obj) == [i \in 1..Len(obj.entries) |-> obj.entries[i][2]]

ObjectKeys(obj) == [i \in 1..Len(obj.entries) |-> obj.entries[i][1]]

----------------------------------------------------------------------------
(* src/lib/shopping-utils.ts *)

\* Mutant: the key is the category and the index without the hyphen
ItemKeyUnseparated(category, index) == category \o NumberToString(index)

\* `${category}-${index}`
ItemKey(category, index) == category \o <<"-">> \o NumberToString(index)

\* Mutant: any present key counts as checked, also one mapped to false
IsCheckedWhenPresent(checked, key) == key \in DOMAIN checked

\* checkedItems[key] read as a condition: a missing key reads undefined
IsChecked(checked, key) == key \in DOMAIN checked /\ checked[key]

\* items.filter((_, index) => !checkedItems[`${category}-${index}`])
RECURSIVE FilterUnchecked(_, _, _, _)
FilterUnchecked(category, items, checked, i) ==
    IF i > Len(items) THEN <<>>
    ELSE (IF ~IsChecked(checked, ItemKey(category, i - 1))
          THEN <<items[i]>> ELSE <<>>)
         \o FilterUnchecked(category, items, checked, i + 1)

\* Mutant: kept items are collected in reverse (unshift instead of push)
RECURSIVE FilterUncheckedReversed(_, _, _, _)
FilterUncheckedReversed(category, items, checked, i) ==
    IF i > Len(items) THEN <<>>
    ELSE FilterUncheckedReversed(category, items, checked, i + 1)
         \o (IF ~IsChecked(checked, ItemKey(category, i - 1))
             THEN <<items[i]>> ELSE <<>>)

RemainingOfReversed(category, items, checked) ==
    FilterUncheckedReversed(category, items, checked, 1)

\* Mutant: content-addressed keys, built from items.indexOf(item)
RemainingByContent(category, items, checked) ==
    LET FirstIndexOf(item) ==
            CHOOSE i \in 1..Len(items) :
                items[i] = item /\ \A j \in 1..(i - 1) : items[j] # item
        Unchecked(item) ==
            ~IsChecked(checked, ItemKey(category, FirstIndexOf(item) - 1))
    IN SelectSeq(items, Unchecked)

RemainingOf(category, items, checked) ==
    FilterUnchecked(category, items, checked, 1)

\* .map(([category, items]) => [category, remaining])
MapRemaining(entries, checked) ==
    [k \in 1..Len(entries) |->
        <<entries[k][1], RemainingOf(entries[k][1], entries[k][2], checked)>>]

HasItems(entry) == Len(entry[2]) > 0

\* Mutant: the filter of line 15 is missing
KeepEmpty(entries) == entries

\* .filter(([, items]) => items.length > 0)
DropEmpty(entries) == SelectSeq(entries, HasItems)

\* Mutant: the null guard of line 9 is missing, Object.entries(null) throws
getRemainingWithoutNullGuard(list, checked) ==
    IF list = Null THEN TypeError
    ELSE ObjectFromEntries(DropEmpty(MapRemaining(ObjectEntries(list), checked)))

getRemainingItemsByCategory(list, checked) ==
    IF list = Null THEN EmptyObject
    ELSE ObjectFromEntries(DropEmpty(MapRemaining(ObjectEntries(list), checked)))

RECURSIVE SumLengths(_, _)
SumLengths(values, extra) ==
    IF Len(values) = 0 THEN 0
    ELSE Len(values[1]) + extra + SumLengths(Tail(values), extra)

countRemainingItems(rem) == SumLengths(ObjectValues(rem), 0)

\* Mutant: the sizes of the two upper ranges are exchanged
FontSizeExchanged(totalLines) ==
    IF totalLines > 60 THEN 10
    ELSE IF totalLines > 45 THEN 9
    ELSE IF totalLines > 30 THEN 11
    ELSE 12

\* Mutants of the thresholds of line 44: inclusive comparisons
FontSizeInclusive(totalLines) ==
    IF totalLines >= 60 THEN 9
    ELSE IF totalLines >= 45 THEN 10
    ELSE IF totalLines >= 30 THEN 11
    ELSE 12

\* totalLines > 60 ? 9 : totalLines > 45 ? 10 : totalLines > 30 ? 11 : 12
FontSizeFor(totalLines) ==
    IF totalLines > 60 THEN 9
    ELSE IF totalLines > 45 THEN 10
    ELSE IF totalLines > 30 THEN 11
    ELSE 12

\* Mutant: the threshold of line 43 is inclusive
ColumnsInclusive(totalLines) == IF totalLines >= 40 THEN 3 ELSE 2

\* totalLines > 40 ? 3 : 2
ColumnsFor(totalLines) == IF totalLines > 40 THEN 3 ELSE 2

\* Object.values(remaining).reduce((sum, items) => sum + items.length + 1, 0)
TotalLines(rem) == SumLengths(ObjectValues(rem), 1)

getPrintLayoutConfig(rem) ==
    [columns |-> ColumnsFor(TotalLines(rem)),
     fontSize |-> FontSizeFor(TotalLines(rem))]

\* 'Lista zakupow (do kupienia):' with the o-acute of the source written "o'"
Header ==
    <<"L", "i", "s", "t", "a", " ", "z", "a", "k", "u", "p", "o'", "w", " ",
      "(", "d", "o", " ", "k", "u", "p", "i", "e", "n", "i", "a", ")", ":">>

\* Characters String.prototype.trim removes (those of the model's alphabet)
WhiteSpace == {" ", "\t", "\n", "\r"}

RECURSIVE TrimStart(_)
TrimStart(s) ==
    IF Len(s) > 0 /\ s[1] \in WhiteSpace THEN TrimStart(Tail(s)) ELSE s

RECURSIVE TrimEnd(_)
TrimEnd(s) ==
    IF Len(s) > 0 /\ s[Len(s)] \in WhiteSpace
    THEN TrimEnd(SubSeq(s, 1, Len(s) - 1)) ELSE s

\* Mutant: the text is returned as joined
TrimNothing(s) == s

\* String.prototype.trim
Trim(s) == TrimEnd(TrimStart(s))

\* lines.join(separator)
RECURSIVE Join(_, _)
Join(lines, separator) ==
    IF Len(lines) = 0 THEN <<>>
    ELSE IF Len(lines) = 1 THEN lines[1]
    ELSE lines[1] \o separator \o Join(Tail(lines), separator)

\* item.amount ? ` (${item.amount})` : ''   (a string is truthy iff non-empty)
AmountSuffix(item) ==
    IF Len(item.amount) > 0 THEN <<" ", "(">> \o item.amount \o <<")">>
    ELSE <<>>

\* `- ${item.name}${suffix}`
ItemLine(item) == <<"-", " ">> \o item.name \o AmountSuffix(item)

\* Mutant: no blank line is pushed before the category
CategoryLinesWithoutBlank(category, items) ==
    <<category>> \o [i \in 1..Len(items) |-> ItemLine(items[i])]

\* lines.push(''); lines.push(category); items.forEach(... lines.push(...))
CategoryLines(category, items) ==
    << <<>>, category >> \o [i \in 1..Len(items) |-> ItemLine(items[i])]

\* Object.entries(remaining).forEach(...)
RECURSIVE PushAll(_, _)
PushAll(lines, entries) ==
    IF Len(entries) = 0 THEN lines
    ELSE PushAll(lines \o CategoryLines(entries[1][1], entries[1][2]),
                 Tail(entries))

ShareLines(rem) == PushAll(<<Header>>, ObjectEntries(rem))

buildShareText(rem) == Trim(Join(ShareLines(rem), <<"\n">>))

----------------------------------------------------------------------------
(* lib/planner-utils: getNextAvailableDay *)

\* null as a returned day; no day is named so
NoDay == "null"

\* A return of getNextAvailableDay: the value and the source line of the return
Return(value, line) == [value |-> value, line |-> line]

\* Mutant: the last assigned day does not enter the set
SetOfAllButLast(seq) == {seq[i] : i \in 1..(Len(seq) - 1)}

\* new Set(assignedDays)
SetOf(seq) == {seq[i] : i \in 1..Len(seq)}

\* Mutant: -1 is never returned, a missing element reads as index 0
IndexOfOrZero(seq, x) ==
    IF \E i \in 1..Len(seq) : seq[i] = x
    THEN (CHOOSE i \in 1..Len(seq) :
            seq[i] = x /\ \A j \in 1..(i - 1) : seq[j] # x) - 1
    ELSE 0

\* Array.prototype.indexOf: zero-based index of the first occurrence, or -1
IndexOf(seq, x) ==
    IF \E i \in 1..Len(seq) : seq[i] = x
    THEN (CHOOSE i \in 1..Len(seq) :
            seq[i] = x /\ \A j \in 1..(i - 1) : seq[j] # x) - 1
    ELSE -1

\* Mutant: the guard of line 8 compares with > instead of >=
AssignedFullStrict(assignedSet, days) == Cardinality(assignedSet) > Len(days)

\* assignedSet.size >= weekDays.length
AssignedFull(assignedSet, days) == Cardinality(assignedSet) >= Len(days)

\* Mutant: the scan starts at the current day itself (offset - 1)
CandidateFromCurrent(days, startIndex, offset) ==
    days[((startIndex + offset - 1) % Len(days)) + 1]

\* Mutant: the index is not wrapped around the end of the week
CandidateIndexUnwrapped(days, startIndex, offset) == startIndex + offset

\* (startIndex + offset) % weekDays.length, a zero-based index
CandidateIndex(days, startIndex, offset) == (startIndex + offset) % Len(days)

\* array[index]: an index outside 0..length-1 reads undefined
ArrayAt(array, index) ==
    IF index \in 0..(Len(array) - 1) THEN array[index + 1] ELSE "undefined"

\* weekDays[(startIndex + offset) % weekDays.length]
Candidate(days, startIndex, offset) ==
    ArrayAt(days, CandidateIndex(days, startIndex, offset))

\* Mutant: the loop stops one step early (offset < weekDays.length)
ScanEndsEarly(days, offset) == offset >= Len(days)

\* negation of the loop condition offset <= weekDays.length
ScanEnds(days, offset) == offset > Len(days)

\* for (let offset = 1; offset <= weekDays.length; offset += 1) { ... } return null
RECURSIVE Scan(_, _, _, _)
Scan(assignedSet, days, startIndex, offset) ==
    IF ScanEnds(days, offset) THEN Return(NoDay, 20)
    ELSE IF Candidate(days, startIndex, offset) \notin assignedSet
    THEN Return(Candidate(days, startIndex, offset), 16)
    ELSE Scan(assignedSet, days, startIndex, offset + 1)

\* The indices of weekDays the loop of lines 13-18 reads, in order
RECURSIVE ScanReads(_, _, _, _)
ScanReads(assignedSet, days, startIndex, offset) ==
    IF ScanEnds(days, offset) THEN <<>>
    ELSE <<CandidateIndex(days, startIndex, offset)>>
         \o (IF Candidate(days, startIndex, offset) \notin assignedSet
             THEN <<>>
             ELSE ScanReads(assignedSet, days, startIndex, offset + 1))

\* Mutant: an empty week gives back the reference day
EmptyWeekGivesCurrent(day) == Return(day, 6)

\* if (weekDays.length === 0) return null
EmptyWeekReturn(day) == Return(NoDay, 6)

getNextAvailableDayReturn(assigned, days, day) ==
    IF Len(days) = 0 THEN EmptyWeekReturn(day)
    ELSE IF AssignedFull(SetOf(assigned), days) THEN Return(NoDay, 8)
    ELSE IF IndexOf(days, day) = -1 THEN Return(NoDay, 11)
    ELSE Scan(SetOf(assigned), days, IndexOf(days, day), 1)

getNextAvailableDay(assigned, days, day) ==
    getNextAvailableDayReturn(assigned, days, day).value

\* The indices read by a call: none when it returns at line 6, 8 or 11
getNextAvailableDayReads(assigned, days, day) ==
    IF Len(days) = 0 THEN <<>>
    ELSE IF AssignedFull(SetOf(assigned), days) THEN <<>>
    ELSE IF IndexOf(days, day) = -1 THEN <<>>
    ELSE ScanReads(SetOf(assigned), days, IndexOf(days, day), 1)

----------------------------------------------------------------------------
(* Inputs of the checked instances *)

Unset == [type |-> "undefined"]

\* listSignature when the page has no list meta (null)
NoSignature == "null"

\* Category names: an integer-like key and a key with a hyphen and a digit
CatNames == {<<"7">>, <<"b", "-", "1">>}

\* ShoppingItem values {name, amount}
Items == {[name |-> <<"c">>, amount |-> <<"2">>],
          [name |-> <<"m">>, amount |-> <<>>]}

SeqsUpTo(S, n) == UNION {[1..k -> S] : k \in 0..n}

IsDistinct(seq) == \A i, j \in 1..Len(seq) : i # j => seq[i] # seq[j]

\* Objects with the given keys, listed in their own-property order
ObjectsOver(names, values) ==
    UNION {{JSObject([k \in 1..Len(ks) |-> <<ks[k], f[k]>>]) :
                f \in [1..Len(ks) -> values]} :
           ks \in {s \in SeqsUpTo(names, Cardinality(names)) : IsDistinct(s)}}

IsOwnPropertyOrder(obj) == ObjectFromEntries(obj.entries) = obj

ShoppingLists ==
    {Null} \cup {o \in ObjectsOver(CatNames, SeqsUpTo(Items, MaxItems)) :
                    IsOwnPropertyOrder(o)}

\* Keys a checked map may hold: every position of a list and one past the end
CheckedKeys ==
    {c \o <<"-", Digits[i + 1]>> : c \in CatNames, i \in 0..MaxItems}

CheckedMaps ==
    UNION {[D -> BOOLEAN] :
           D \in {E \in SUBSET CheckedKeys : Cardinality(E) <= MaxChecked}}

\* Remaining mappings by size only: n copies of one item per category
Copies(item, n) == [i \in 1..n |-> item]

LayoutItems == {Copies([name |-> <<"c">>, amount |-> <<>>], n) :
                    n \in 0..MaxLayoutItems}

LayoutInputs ==
    {o \in ObjectsOver(CatNames, LayoutItems) : IsOwnPropertyOrder(o)}

DayNames == {"Mon", "Tue", "Wed", "Thu"}
OtherNames == {"Xyz"}

\* The week of the planner: distinct day names in calendar order
WeekDayLists == {s \in SeqsUpTo(DayNames, MaxWeek) : IsDistinct(s)}

AssignedDayLists == SeqsUpTo(DayNames \cup OtherNames, MaxAssigned)

\* Weeks in which a name may occur more than once
AnyDayNames == {"Mon", "Tue"}

AnyWeekDayLists == SeqsUpTo(AnyDayNames, MaxWeek)

AnyAssignedDayLists == SeqsUpTo(AnyDayNames \cup OtherNames, MaxAssigned)

----------------------------------------------------------------------------
(* Callers of shopping-utils: remaining items, then their count *)

NoShoppingArgs ==
    /\ shoppingList = Null
    /\ checkedItems = <<>>
    /\ remainingCount = 0

NoLayoutArgs == printLayout = Unset /\ shareText = <<>>

NoPlannerArgs ==
    /\ assignedDays = <<>>
    /\ weekDays = <<>>
    /\ currentDay = ""
    /\ nextDay = Return(NoDay, 0)
    /\ scanReads = <<>>

\* No planner view is shown
NoApp ==
    /\ plannerRecipes = <<>>
    /\ shoppingListMeta = Null
    /\ isGeneratingList = FALSE
    /\ lastAutoRequestSignature = <<>>
    /\ timeout = <<>>
    /\ requests = <<>>

NoPage ==
    /\ initialDays = <<>>
    /\ presses = 0
    /\ NoApp

\* No ShoppingView is mounted
NoView ==
    /\ listSignature = NoSignature
    /\ storage = Null
    /\ effects = <<>>
    /\ pendingChecked = <<>>
    /\ origin = [checked |-> {}, pending |-> {}, stored |-> {}]
    /\ calls = <<>>

Init ==
    /\ shoppingList \in ShoppingLists
    /\ checkedItems \in CheckedMaps
    /\ remaining = Unset
    /\ remainingCount = 0
    /\ NoLayoutArgs
    /\ NoPlannerArgs
    /\ NoView
    /\ NoPage
    /\ pc = "start"

\* Mutant: the filtered items are written back into the list passed in
CallGetRemainingInPlace ==
    /\ pc = "start"
    /\ remaining' = getRemainingItemsByCategory(shoppingList, checkedItems)
    /\ shoppingList' = remaining'
    /\ pc' = "remaining"
    /\ UNCHANGED <<viewVars, pageVars, scanReads, checkedItems, remainingCount,
                   printLayout, shareText, assignedDays, weekDays, currentDay,
                   nextDay>>

\* const remaining = getRemainingItemsByCategory(shoppingList, checkedItems)
CallGetRemaining ==
    /\ pc = "start"
    /\ remaining' = getRemainingItemsByCategory(shoppingList, checkedItems)
    /\ pc' = IF remaining' = TypeError THEN "threw" ELSE "remaining"
    /\ UNCHANGED <<viewVars, pageVars, scanReads, shoppingList, checkedItems,
                   remainingCount, printLayout, shareText, assignedDays, weekDays, currentDay, nextDay>>

\* countRemainingItems(remaining)
CallCountRemaining ==
    /\ pc = "remaining"
    /\ remainingCount' = countRemainingItems(remaining)
    /\ pc' = "counted"
    /\ UNCHANGED <<viewVars, pageVars, scanReads, shoppingList, checkedItems,
                   remaining, printLayout, shareText, assignedDays, weekDays, currentDay, nextDay>>

Next == CallGetRemaining \/ CallCountRemaining

Spec == Init /\ [][Next]_vars

----------------------------------------------------------------------------
(* Caller of getPrintLayoutConfig *)

InitLayout ==
    /\ NoShoppingArgs
    /\ remaining \in LayoutInputs
    /\ NoLayoutArgs
    /\ NoPlannerArgs
    /\ NoView
    /\ NoPage
    /\ pc = "start"

\* const config = getPrintLayoutConfig(remaining)
CallGetPrintLayoutConfig ==
    /\ pc = "start"
    /\ printLayout' = getPrintLayoutConfig(remaining)
    /\ pc' = "done"
    /\ UNCHANGED <<viewVars, pageVars, scanReads, shoppingList, checkedItems,
                   remaining, remainingCount, shareText, assignedDays, weekDays, currentDay, nextDay>>

NextLayout == CallGetPrintLayoutConfig

SpecLayout == InitLayout /\ [][NextLayout]_vars

----------------------------------------------------------------------------
(* Caller of getNextAvailableDay *)

InitPlanner ==
    /\ NoShoppingArgs
    /\ remaining = Unset
    /\ NoLayoutArgs
    /\ assignedDays \in AssignedDayLists
    /\ weekDays \in WeekDayLists
    /\ currentDay \in DayNames \cup OtherNames
    /\ nextDay = Return(NoDay, 0)
    /\ scanReads = <<>>
    /\ NoView
    /\ NoPage
    /\ pc = "start"

\* const nextDay = getNextAvailableDay(assignedDays, weekDayNames, day.name)
CallGetNextAvailableDay ==
    /\ pc = "start"
    /\ nextDay' = getNextAvailableDayReturn(assignedDays, weekDays, currentDay)
    /\ scanReads' = getNextAvailableDayReads(assignedDays, weekDays, currentDay)
    /\ pc' = "done"
    /\ UNCHANGED <<viewVars, pageVars, shoppingList, checkedItems, remaining,
                   remainingCount, printLayout, shareText, assignedDays, weekDays, currentDay>>

NextPlanner == CallGetNextAvailableDay

SpecPlanner == InitPlanner /\ [][NextPlanner]_vars

\* Any arguments of the declared types: a week with repeated names, assigned
\* names outside the week
InitPlannerAny ==
    /\ NoShoppingArgs
    /\ remaining = Unset
    /\ NoLayoutArgs
    /\ assignedDays \in AnyAssignedDayLists
    /\ weekDays \in AnyWeekDayLists
    /\ currentDay \in AnyDayNames \cup OtherNames
    /\ nextDay = Return(NoDay, 0)
    /\ scanReads = <<>>
    /\ NoView
    /\ NoPage
    /\ pc = "start"

SpecPlannerAny == InitPlannerAny /\ [][NextPlanner]_vars

----------------------------------------------------------------------------
(* Caller of buildShareText *)

\* Items with a plain, a blank and an empty amount, and one with an empty name
ShareItems ==
    {[name |-> <<"c">>, amount |-> <<"2">>],
     [name |-> <<"c">>, amount |-> <<" ">>],
     [name |-> <<"c">>, amount |-> <<>>],
     [name |-> <<>>, amount |-> <<>>]}

\* The remaining mappings whose items are among the given ones
ShareInputs(items) ==
    {o \in ObjectsOver(CatNames, SeqsUpTo(items, MaxItems)) :
        IsOwnPropertyOrder(o)}

InitShare ==
    /\ NoShoppingArgs
    /\ remaining \in ShareInputs(ShareItems)
    /\ NoLayoutArgs
    /\ NoPlannerArgs
    /\ NoView
    /\ NoPage
    /\ pc = "start"

\* const text = buildShareText(remaining)
CallBuildShareText ==
    /\ pc = "start"
    /\ shareText' = buildShareText(remaining)
    /\ pc' = "done"
    /\ UNCHANGED <<viewVars, pageVars, scanReads, shoppingList, checkedItems,
                   remaining, remainingCount, printLayout, assignedDays, weekDays, currentDay, nextDay>>

NextShare == CallBuildShareText

SpecShare == InitShare /\ [][NextShare]_vars

----------------------------------------------------------------------------
(* The five functions together, each called where its argument is there; *)
(* the layout and the share text are computed from the same mappings      *)

InitCore == Init \/ InitShare \/ InitPlannerAny

NextCore ==
    \/ (remaining = Unset /\ CallGetRemaining)
    \/ CallCountRemaining
    \/ (remaining # Unset /\ CallGetPrintLayoutConfig)
    \/ (remaining # Unset /\ CallBuildShareText)
    \/ CallGetNextAvailableDay

SpecCore == InitCore /\ [][NextCore]_vars

----------------------------------------------------------------------------
(* ShoppingView (src/unnamed/part_013): checked state and its persistence *)

\* List signatures, opaque non-empty strings
Signatures == {"A", "B"}

\* A localStorage item that JSON.parse rejects
Unparsable == [type |-> "text"]

\* JSON.stringify({ signature, items }) as localStorage holds it: items is
\* <<map>>, or <<>> in a stored object without that property
Stored(signature, items) ==
    [type |-> "json", signature |-> signature, items |-> items]

\* Mutant: the stored items are taken whatever signature they carry
LoadedCheckedAnySignature(signature, saved) ==
    IF signature = NoSignature THEN <<>>
    ELSE IF saved = Null THEN <<>>
    ELSE IF saved = Unparsable THEN <<>>
    ELSE IF saved.items # <<>> THEN saved.items[1]
    ELSE <<>>

\* The argument of setCheckedItems in the effect of lines 34-55
LoadedChecked(signature, saved) ==
    IF signature = NoSignature THEN <<>>
    ELSE IF saved = Null THEN <<>>
    ELSE IF saved = Unparsable THEN <<>>
    ELSE IF saved.signature = signature /\ saved.items # <<>>
    THEN saved.items[1]
    ELSE <<>>

\* Mutant: the key is set to true whatever it was
ToggleOn(prev, key) ==
    [k \in DOMAIN prev \cup {key} |-> IF k = key THEN TRUE ELSE prev[k]]

\* ({ ...prev, [key]: !prev[key] })
Toggle(prev, key) ==
    [k \in DOMAIN prev \cup {key} |->
        IF k = key THEN ~IsChecked(prev, key) ELSE prev[k]]

\* The lists the view is given: one item, two items in one category, and
\* one item in each of two categories, the name of the second being the key
\* of the second position of the first
ViewLists ==
    {JSObject(<< <<<<"7">>, items>> >>) :
        items \in {<<[name |-> <<"c">>, amount |-> <<"2">>]>>,
                   <<[name |-> <<"c">>, amount |-> <<"2">>],
                     [name |-> <<"m">>, amount |-> <<>>]>>}}
        \cup {JSObject(<< <<<<"7">>, <<[name |-> <<"c">>, amount |-> <<"2">>]>>>>,
                          <<ItemKey(<<"7">>, 1),
                            <<[name |-> <<"m">>, amount |-> <<>>]>>>> >>)}

\* shoppingList and listSignature as page.tsx passes them: both null, or a
\* list with the signature of its meta
ViewProps == {<<Null, NoSignature>>} \cup (ViewLists \X Signatures)

\* What localStorage may hold when the view is first mounted
StoredAtStart ==
    {Null, Unparsable}
        \cup {Stored(sig, items) :
                sig \in Signatures,
                items \in {<<>>, << <<>> >>, <<ItemKey(<<"7">>, 0) :> TRUE>>}}

\* History of a record an earlier session left: its items were recorded under
\* the signature it carries
StoredOrigin(saved) ==
    IF saved \in {Null, Unparsable} THEN {}
    ELSE IF saved.items = <<>> THEN {}
    ELSE {saved.signature}

\* History of the map the load effect passes to setCheckedItems
LoadedOrigin(signature, saved, storedOrigin) ==
    IF LoadedChecked(signature, saved) = <<>> THEN {} ELSE storedOrigin

\* The positions (category, index) the view renders a button for
Positions(list) ==
    IF list = Null THEN {}
    ELSE UNION {{<<list.entries[k][1], i - 1>> :
                    i \in 1..Len(list.entries[k][2])} :
                k \in 1..Len(list.entries)}

\* Mutant: the memo of lines 92-95 depends on checkedItems only
RenderMemoOnChecked(list, checked) ==
    /\ remaining' = IF remaining # Unset /\ checked = checkedItems
                    THEN remaining
                    ELSE getRemainingItemsByCategory(list, checked)
    /\ remainingCount' = countRemainingItems(remaining')
    /\ printLayout' = getPrintLayoutConfig(remaining')

\* Lines 86-88: the sum of the lengths of the categories, 0 without a list
totalItems(list) ==
    IF list = Null THEN 0 ELSE SumLengths(ObjectValues(list), 0)

\* Object.values(checkedItems).filter(Boolean).length, line 90
checkedCount(checked) == Cardinality({k \in DOMAIN checked : checked[k]})

\* checkedCount === totalItems && totalItems > 0, lines 257 and 322
AllBought(list, checked) ==
    checkedCount(checked) = totalItems(list) /\ totalItems(list) > 0

\* The values of lines 92-105 as a render with this list and map computes them
Render(list, checked) ==
    /\ remaining' = getRemainingItemsByCategory(list, checked)
    /\ remainingCount' = countRemainingItems(remaining')
    /\ printLayout' = getPrintLayoutConfig(remaining')

\* The state the next render reads: the queued updates applied
NextChecked ==
    IF pendingChecked = <<>> THEN checkedItems ELSE pendingChecked[1]

\* History of that state
NextOrigin ==
    IF pendingChecked = <<>> THEN origin.checked ELSE origin.pending

InitView ==
    /\ NoShoppingArgs
    /\ remaining = Unset
    /\ NoLayoutArgs
    /\ NoPlannerArgs
    /\ listSignature = NoSignature
    /\ storage \in StoredAtStart
    /\ effects = <<>>
    /\ pendingChecked = <<>>
    /\ origin = [checked |-> {}, pending |-> {}, stored |-> StoredOrigin(storage)]
    /\ calls = <<>>
    /\ NoPage
    /\ pc = "unmounted"

\* The view is shown: useState({}) and the first render; both effects are due
Mount(list, signature) ==
    /\ pc = "unmounted"
    /\ shoppingList' = list
    /\ listSignature' = signature
    /\ checkedItems' = <<>>
    /\ pendingChecked' = <<>>
    /\ Render(list, <<>>)
    /\ effects' = <<"load", "save">>
    /\ origin' = [origin EXCEPT !.checked = {}, !.pending = {}]
    /\ calls' = <<>>
    /\ pc' = "mounted"
    /\ UNCHANGED <<storage, shareText, assignedDays, weekDays, currentDay,
                   nextDay, scanReads, pageVars>>

\* The parent renders the view with another list or signature; an effect is
\* due when one of its dependencies differs from the previous render
PropsChange(list, signature) ==
    /\ pc = "mounted"
    /\ effects = <<>>
    /\ <<list, signature>> # <<shoppingList, listSignature>>
    /\ shoppingList' = list
    /\ listSignature' = signature
    /\ checkedItems' = NextChecked
    /\ pendingChecked' = <<>>
    /\ Render(list, NextChecked)
    /\ effects' = (IF signature # listSignature THEN <<"load">> ELSE <<>>)
                    \o (IF signature # listSignature \/ pendingChecked # <<>>
                        THEN <<"save">> ELSE <<>>)
    /\ origin' = [origin EXCEPT !.checked = NextOrigin, !.pending = {}]
    /\ calls' = <<>>
    /\ UNCHANGED <<storage, shareText, assignedDays, weekDays, currentDay,
                   nextDay, scanReads, pageVars, pc>>

\* The render that a setCheckedItems call scheduled
Rerender ==
    /\ pc = "mounted"
    /\ effects = <<>>
    /\ pendingChecked # <<>>
    /\ checkedItems' = NextChecked
    /\ pendingChecked' = <<>>
    /\ Render(shoppingList, NextChecked)
    /\ effects' = <<"save">>
    /\ origin' = [origin EXCEPT !.checked = NextOrigin, !.pending = {}]
    /\ calls' = <<>>
    /\ UNCHANGED <<shoppingList, listSignature, storage, shareText,
                   assignedDays, weekDays, currentDay, nextDay, scanReads, pageVars, pc>>

\* Position of the caller after an effect: the effects of one render run
\* together, nothing else of the view runs between them
AfterEffect == IF Tail(effects) = <<>> THEN "mounted" ELSE "flushing"

\* useEffect(() => { ... }, [listSignature]), lines 34-55
RunLoadEffect ==
    /\ pc \in {"mounted", "flushing"}
    /\ effects # <<>>
    /\ Head(effects) = "load"
    /\ pendingChecked' = <<LoadedChecked(listSignature, storage)>>
    /\ storage' = IF listSignature = NoSignature THEN Null ELSE storage
    /\ origin' = [origin EXCEPT
                    !.pending = LoadedOrigin(listSignature, storage, origin.stored),
                    !.stored = IF listSignature = NoSignature THEN {} ELSE @]
    /\ calls' = <<>>
    /\ effects' = Tail(effects)
    /\ pc' = AfterEffect
    /\ UNCHANGED <<shoppingList, listSignature, checkedItems, remaining,
                   remainingCount, printLayout, shareText, assignedDays,
                   weekDays, currentDay, nextDay, scanReads, pageVars>>

\* useEffect(() => { ... }, [checkedItems, listSignature]), lines 57-63
RunSaveEffect ==
    /\ pc \in {"mounted", "flushing"}
    /\ effects # <<>>
    /\ Head(effects) = "save"
    /\ storage' = IF listSignature = NoSignature THEN storage
                  ELSE Stored(listSignature, <<checkedItems>>)
    /\ origin' = [origin EXCEPT
                    !.stored = IF listSignature = NoSignature THEN @
                               ELSE origin.checked]
    /\ calls' = <<>>
    /\ effects' = Tail(effects)
    /\ pc' = AfterEffect
    /\ UNCHANGED <<shoppingList, listSignature, checkedItems, pendingChecked,
                   remaining, remainingCount, printLayout, shareText,
                   assignedDays, weekDays, currentDay, nextDay, scanReads, pageVars>>

\* toggleItem(category, index), lines 65-71, from the button of a position
ToggleItem(category, index) ==
    /\ pc = "mounted"
    /\ <<category, index>> \in Positions(shoppingList)
    /\ pendingChecked' = <<Toggle(NextChecked, ItemKey(category, index))>>
    /\ origin' = [origin EXCEPT !.pending = NextOrigin \cup {listSignature}]
    /\ calls' = <<>>
    /\ UNCHANGED <<shoppingList, listSignature, checkedItems, storage, effects,
                   remaining, remainingCount, printLayout, shareText,
                   assignedDays, weekDays, currentDay, nextDay, scanReads, pageVars, pc>>

\* A call of one of the APIs the handlers use, with its text argument
Call(api, text) == [api |-> api, text |-> text]

\* The share path taken (navigator.share when the browser has it, else the
\* clipboard) and how its promise settles
ShareApis == {"navigator.share", "copyToClipboard"}
ShareOutcomes == {"resolved", "AbortError", "Error"}

\* The toast of lines 136-148 after the awaited call: none on AbortError
ShareToast(outcome) ==
    IF outcome = "resolved" THEN <<Call("showToast", <<"success">>)>>
    ELSE IF outcome = "AbortError" THEN <<>>
    ELSE <<Call("showToast", <<"error">>)>>

\* handleShareOrCopy, lines 130-149, with the values of the last render; the
\* click is handled once the effects of that render have run
HandleShareOrCopy(api, outcome) ==
    /\ pc = "mounted"
    /\ effects = <<>>
    /\ calls' = IF remainingCount = 0
                THEN <<Call("showToast", <<"info">>)>>
                ELSE <<Call(api, buildShareText(remaining))>>
                        \o ShareToast(outcome)
    /\ UNCHANGED <<shoppingList, listSignature, checkedItems, pendingChecked,
                   storage, effects, origin, remaining, remainingCount,
                   printLayout, shareText, assignedDays, weekDays, currentDay,
                   nextDay, scanReads, pageVars, pc>>

\* handleExportPdf, lines 151-157: window.print() prints the section rendered
\* from the remaining items of the last render
HandleExportPdf ==
    /\ pc = "mounted"
    /\ effects = <<>>
    /\ calls' = IF remainingCount = 0
                THEN <<Call("showToast", <<"info">>)>>
                ELSE <<Call("window.print", <<>>)>>
    /\ UNCHANGED <<shoppingList, listSignature, checkedItems, pendingChecked,
                   storage, effects, origin, remaining, remainingCount,
                   printLayout, shareText, assignedDays, weekDays, currentDay,
                   nextDay, scanReads, pageVars, pc>>

\* The view is left (page.tsx renders it for currentView 'shopping' only) or
\* the page is closed: its state is gone, localStorage stays
Unmount ==
    /\ pc \in {"mounted", "flushing"}
    /\ shoppingList' = Null
    /\ listSignature' = NoSignature
    /\ checkedItems' = <<>>
    /\ pendingChecked' = <<>>
    /\ effects' = <<>>
    /\ remaining' = Unset
    /\ remainingCount' = 0
    /\ printLayout' = Unset
    /\ origin' = [origin EXCEPT !.checked = {}, !.pending = {}]
    /\ calls' = <<>>
    /\ pc' = "unmounted"
    /\ UNCHANGED <<storage, shareText, assignedDays, weekDays, currentDay,
                   nextDay, scanReads, pageVars>>

NextView ==
    \/ \E props \in ViewProps : Mount(props[1], props[2])
    \/ \E props \in ViewProps : PropsChange(props[1], props[2])
    \/ Rerender
    \/ RunLoadEffect
    \/ RunSaveEffect
    \/ \E position \in Positions(shoppingList) :
          ToggleItem(position[1], position[2])
    \/ \E api \in ShareApis, outcome \in ShareOutcomes :
          HandleShareOrCopy(api, outcome)
    \/ HandleExportPdf
    \/ Unmount

SpecView == InitView /\ [][NextView]_vars

----------------------------------------------------------------------------
(* PlannerView (src/components/views/planner-view.tsx) and handleAssignDay  *)
(* (src/app/page.tsx): the days of one recipe of the planner                *)

\* Array.from(new Set(recipe.assignedDays)): first occurrences, in order
RECURSIVE getAssignedDays(_)
getAssignedDays(days) ==
    IF Len(days) = 0 THEN <<>>
    ELSE LET front == getAssignedDays(SubSeq(days, 1, Len(days) - 1))
             last == days[Len(days)]
         IN IF last \in SetOf(front) THEN front ELSE Append(front, last)

\* Mutant: the recipe is moved to the day, its other days are dropped
nextDaysReplaced(currentDays, day) == <<day>>

\* exists ? currentDays.filter((d) => d !== day) : [...currentDays, day]
nextDays(currentDays, day) ==
    IF day \in SetOf(currentDays)
    THEN SelectSeq(currentDays, LAMBDA d : d # day)
    ELSE Append(currentDays, day)

\* The message of the toast of lines 227-230.  `action` is assigned inside
\* the updater of setPlannerRecipes, which React runs at once or at the next
\* render; when a day is removed the toast has either message.
ToastActions(currentDays, day) ==
    IF day \in SetOf(currentDays) THEN {"add", "remove"} ELSE {"add"}

\* The recipe has a card under the day: recipesByDay, lines 111-129
ShownUnder(day) ==
    day \in SetOf(weekDays) \cap SetOf(getAssignedDays(assignedDays))

\* What the card under the day offers: line 196
Offered(day) == getNextAvailableDay(getAssignedDays(assignedDays), weekDays, day)

\* getWeekDays, lines 47-80: the names of the week in their fixed order; the
\* checked weeks are its first days
WeekOrder == <<"Mon", "Tue", "Wed", "Thu">>

PlannerWeeks ==
    {SubSeq(WeekOrder, 1, k) : k \in 0..(IF MaxWeek < 4 THEN MaxWeek ELSE 4)}

InitAssign ==
    /\ NoShoppingArgs
    /\ remaining = Unset
    /\ NoLayoutArgs
    /\ assignedDays \in AssignedDayLists
    /\ weekDays \in PlannerWeeks
    /\ currentDay = ""
    /\ nextDay = Return(NoDay, 0)
    /\ scanReads = <<>>
    /\ NoView
    /\ initialDays = assignedDays
    /\ presses = 0
    /\ NoApp
    /\ pc = "planner"

\* The button of lines 258-268 on the card under a day:
\* onAssignDay(recipe.id, nextDay), handleAssignDay of page.tsx 209-232
PressNextDay(day, toast) ==
    /\ pc = "planner"
    /\ ShownUnder(day)
    /\ Offered(day) # NoDay
    /\ toast \in ToastActions(assignedDays, Offered(day))
    /\ currentDay' = day
    /\ nextDay' = getNextAvailableDayReturn(getAssignedDays(assignedDays),
                                            weekDays, day)
    /\ scanReads' = getNextAvailableDayReads(getAssignedDays(assignedDays),
                                             weekDays, day)
    /\ assignedDays' = nextDays(assignedDays, Offered(day))
    /\ calls' = <<Call("showToast", <<toast>>)>>
    /\ presses' = presses + 1
    /\ UNCHANGED <<shoppingList, checkedItems, remaining, remainingCount,
                   printLayout, shareText, weekDays, listSignature, storage,
                   effects, pendingChecked, origin, initialDays, appVars, pc>>

\* A button of the day selection of lines 329-345:
\* onAssignDay(recipe.id, day.name) adds the day or removes it
PickDay(day, toast) ==
    /\ pc = "planner"
    /\ day \in SetOf(weekDays)
    /\ toast \in ToastActions(assignedDays, day)
    /\ assignedDays' = nextDays(assignedDays, day)
    /\ calls' = <<Call("showToast", <<toast>>)>>
    /\ initialDays' = assignedDays'
    /\ presses' = 0
    /\ UNCHANGED <<shoppingList, checkedItems, remaining, remainingCount,
                   printLayout, shareText, weekDays, currentDay, nextDay,
                   scanReads, listSignature, storage, effects, pendingChecked,
                   origin, appVars, pc>>

NextAssign ==
    \/ \E day \in DayNames, toast \in {"add", "remove"} : PressNextDay(day, toast)
    \/ \E day \in DayNames, toast \in {"add", "remove"} : PickDay(day, toast)

SpecAssign == InitAssign /\ [][NextAssign]_vars

----------------------------------------------------------------------------
(* KitchenOSApp (src/app/page.tsx): the planner, the shopping list with its *)
(* meta, and the refresh of the list.  An action is one handler, callback   *)
(* or effect together with the render its state updates cause; the effects  *)
(* a render leaves due run before anything else does.                       *)

\* { ...recipe, portions, assignedDays: [] }, line 171
PlannerRecipe(id, portions) ==
    [id |-> id, portions |-> portions, assignedDays |-> <<>>]

\* The names in the order of the default sort of strings
RECURSIVE SortNames(_)
SortNames(names) ==
    IF names = {} THEN <<>>
    ELSE LET SortOrder == <<"Mon", "Thu", "Tue", "Wed", "Xyz">>
             SortRank(name) == CHOOSE i \in 1..Len(SortOrder) : SortOrder[i] = name
             first == CHOOSE n \in names :
                        \A m \in names : SortRank(n) <= SortRank(m)
         IN <<first>> \o SortNames(names \ {first})

\* Array.from(new Set(days)).sort(), lines 40-47
normalizeAssignedDays(recipe) == SortNames(SetOf(recipe.assignedDays))

\* .sort((a, b) => a.id - b.id): a stable sort by id
RECURSIVE SortById(_)
SortById(payload) ==
    IF Len(payload) = 0 THEN <<>>
    ELSE LET rest == SortById(Tail(payload))
             before == SelectSeq(rest, LAMBDA e : e.id < payload[1].id)
             after == SelectSeq(rest, LAMBDA e : e.id >= payload[1].id)
         IN before \o <<payload[1]>> \o after

\* buildPlannerSignature, lines 49-59: '' (here <<>>) for an empty planner,
\* else the JSON text of the sorted payload, which is the payload itself here
buildPlannerSignature(recipes) ==
    IF Len(recipes) = 0 THEN <<>>
    ELSE SortById([i \in 1..Len(recipes) |->
                    [id |-> recipes[i].id,
                     portions |-> recipes[i].portions,
                     days |-> normalizeAssignedDays(recipes[i])]])

plannerSignature == buildPlannerSignature(plannerRecipes)

\* servings[id] of lines 289-293; dayCount is
\* r.assignedDays && r.assignedDays.length > 0 ? r.assignedDays.length : 1
RECURSIVE ServingsOf(_, _)
ServingsOf(recipes, id) ==
    LET dayCount == IF Len(recipes[1].assignedDays) > 0
                    THEN Len(recipes[1].assignedDays) ELSE 1
    IN IF Len(recipes) = 0 THEN 0
       ELSE (IF recipes[1].id = id THEN recipes[1].portions * dayCount ELSE 0)
                + ServingsOf(Tail(recipes), id)

\* Object.keys(servings).map(Number): the ids in ascending order
RECURSIVE AscendingIds(_)
AscendingIds(ids) ==
    IF ids = {} THEN <<>>
    ELSE LET least == CHOOSE i \in ids : \A j \in ids : i <= j
         IN <<least>> \o AscendingIds(ids \ {least})

\* The selections of the request body, api.ts 237-242
Selections(recipes) ==
    LET recipeIds == AscendingIds({recipes[i].id : i \in 1..Len(recipes)})
    IN [k \in 1..Len(recipeIds) |->
            [id |-> recipeIds[k], portions |-> ServingsOf(recipes, recipeIds[k])]]

\* The list the backend answers a request with: one item for each selection,
\* named by the id, with the portions as its amount
GeneratedList(selections) ==
    JSObject(<< <<<<"7">>,
                  [k \in 1..Len(selections) |->
                      [name |-> NumberToString(selections[k].id),
                       amount |-> NumberToString(selections[k].portions)]]>> >>)

\* Mutant: the signature is that of the planner when the answer arrives
SignatureOfCurrent(closureRecipes, currentRecipes) ==
    buildPlannerSignature(currentRecipes)

\* const signature = buildPlannerSignature(plannerRecipes), line 299, where
\* plannerRecipes is the array the callback was created with
SignatureOfClosure(closureRecipes, currentRecipes) ==
    buildPlannerSignature(closureRecipes)

MaxPortions == 2
MaxRequests == 2
RecipeIds == {1}
PageDays == {"Mon"}

\* The recipes of a planner; their lists of days are those handleAssignDay
\* makes: no day twice
PlannerRecipes ==
    LET DayLists ==
            UNION {{days \in [1..n -> PageDays] :
                        \A i, j \in 1..n : days[i] = days[j] => i = j} :
                   n \in 0..Cardinality(PageDays)}
    IN {[PlannerRecipe(id, portions) EXCEPT !.assignedDays = days] :
            id \in RecipeIds, portions \in 1..MaxPortions, days \in DayLists}

\* The planners the handlers make: no recipe id twice
Planners ==
    UNION {{recipes \in [1..n -> PlannerRecipes] :
                \A i, j \in 1..n : recipes[i].id = recipes[j].id => i = j} :
           n \in 0..Cardinality(RecipeIds)}

\* shoppingList and shoppingListMeta after the load of lines 125-143: nothing
\* saved, or the list and the signature an earlier session saved
SavedLists ==
    {<<Null, Null>>}
        \cup {<<GeneratedList(Selections(recipes)),
                [signature |-> buildPlannerSignature(recipes), isStale |-> FALSE]>> :
                recipes \in Planners \ {<<>>}}

\* shoppingListMeta?.signature and shoppingListMeta?.isStale: <<>> is undefined
MetaSignature ==
    IF shoppingListMeta = Null THEN <<>> ELSE <<shoppingListMeta.signature>>
MetaIsStale ==
    IF shoppingListMeta = Null THEN <<>> ELSE <<shoppingListMeta.isStale>>

\* The dependencies of the effects of lines 314-357 and 359-366, the identity
\* of handleGenerateShoppingList and of the list object left aside
AutoDeps ==
    <<plannerSignature, Len(plannerRecipes), shoppingList, MetaSignature,
      MetaIsStale, isGeneratingList>>
StaleDeps == <<plannerSignature, MetaIsStale, MetaSignature>>

\* The effects due after the render of a step; newIdentity: the step made a
\* new plannerRecipes array (so a new handleGenerateShoppingList) or a new
\* list object
DueAfter(newIdentity) ==
    (IF newIdentity \/ AutoDeps' # AutoDeps THEN <<"auto">> ELSE <<>>)
        \o (IF StaleDeps' # StaleDeps THEN <<"staleReset">> ELSE <<>>)

\* What the page steps leave alone
restVars ==
    <<checkedItems, remaining, remainingCount, printLayout, shareText,
      assignedDays, weekDays, currentDay, nextDay, scanReads, listSignature,
      storage, pendingChecked, origin, initialDays, presses>>

InitPage ==
    /\ checkedItems = <<>>
    /\ remainingCount = 0
    /\ remaining = Unset
    /\ NoLayoutArgs
    /\ NoPlannerArgs
    /\ listSignature = NoSignature
    /\ storage = Null
    /\ pendingChecked = <<>>
    /\ origin = [checked |-> {}, pending |-> {}, stored |-> {}]
    /\ calls = <<>>
    /\ initialDays = <<>>
    /\ presses = 0
    /\ plannerRecipes \in Planners
    /\ \E saved \in SavedLists :
          /\ shoppingList = saved[1]
          /\ shoppingListMeta = saved[2]
    /\ isGeneratingList = FALSE
    /\ lastAutoRequestSignature = <<>>
    /\ timeout = <<>>
    /\ requests = <<>>
    /\ effects = <<"auto", "staleReset">>
    /\ pc = "dashboard"

\* onViewChange={setCurrentView}, line 414; pc is currentView
Navigate(view) ==
    /\ effects = <<>>
    /\ view # pc
    /\ pc' = view
    /\ calls' = <<>>
    /\ UNCHANGED <<shoppingList, effects, appVars, restVars>>

\* handleAddToPlanner, lines 166-174
HandleAddToPlanner(id) ==
    /\ effects = <<>>
    /\ pc = "dashboard"
    /\ plannerRecipes' =
          IF \E i \in 1..Len(plannerRecipes) : plannerRecipes[i].id = id
          THEN plannerRecipes
          ELSE Append(plannerRecipes, PlannerRecipe(id, 2))
    /\ calls' = <<Call("showToast", <<"success">>)>>
    /\ UNCHANGED <<shoppingList, shoppingListMeta, isGeneratingList,
                   lastAutoRequestSignature, timeout, requests, pc, restVars>>
    /\ effects' = DueAfter(plannerRecipes' # plannerRecipes)

\* handleUpdatePortions, lines 177-181, from the buttons of planner-view.tsx
\* 238 and 244 of a recipe of the planner: prev.map makes a new array
HandleUpdatePortions(id, portions) ==
    /\ effects = <<>>
    /\ pc = "planner"
    /\ \E i \in 1..Len(plannerRecipes) :
          /\ plannerRecipes[i].id = id
          /\ portions \in {IF plannerRecipes[i].portions > 1
                            THEN plannerRecipes[i].portions - 1 ELSE 1,
                            plannerRecipes[i].portions + 1}
    /\ portions <= MaxPortions
    /\ plannerRecipes' =
          [i \in 1..Len(plannerRecipes) |->
              IF plannerRecipes[i].id = id
              THEN [plannerRecipes[i] EXCEPT !.portions = portions]
              ELSE plannerRecipes[i]]
    /\ calls' = <<>>
    /\ UNCHANGED <<shoppingList, shoppingListMeta, isGeneratingList,
                   lastAutoRequestSignature, timeout, requests, pc, restVars>>
    /\ effects' = DueAfter(TRUE)

\* handleAssignDay, lines 209-232, from the day buttons of planner-view.tsx
\* 329-345; no recipe here carries the former assignedDay field
HandleAssignDay(id, day) ==
    /\ effects = <<>>
    /\ pc = "planner"
    /\ \E i \in 1..Len(plannerRecipes) : plannerRecipes[i].id = id
    /\ plannerRecipes' =
          [i \in 1..Len(plannerRecipes) |->
              IF plannerRecipes[i].id = id
              THEN [plannerRecipes[i] EXCEPT
                      !.assignedDays = nextDays(plannerRecipes[i].assignedDays, day)]
              ELSE plannerRecipes[i]]
    /\ calls' = <<Call("showToast", <<"success">>)>>
    /\ UNCHANGED <<shoppingList, shoppingListMeta, isGeneratingList,
                   lastAutoRequestSignature, timeout, requests, pc, restVars>>
    /\ effects' = DueAfter(TRUE)

\* handleRemoveFromPlanner(id), lines 184-205, without a day
HandleRemoveFromPlanner(id) ==
    /\ effects = <<>>
    /\ pc = "planner"
    /\ \E i \in 1..Len(plannerRecipes) : plannerRecipes[i].id = id
    /\ plannerRecipes' = SelectSeq(plannerRecipes, LAMBDA r : r.id # id)
    /\ calls' = <<Call("showToast", <<"info">>)>>
    /\ UNCHANGED <<shoppingList, shoppingListMeta, isGeneratingList,
                   lastAutoRequestSignature, timeout, requests, pc, restVars>>
    /\ effects' = DueAfter(TRUE)

\* handleGenerateShoppingList up to its await, lines 284-296, as the callback
\* made in the render with these recipes
StartGeneration(recipes, silent) ==
    IF Len(recipes) = 0
    THEN UNCHANGED <<isGeneratingList, requests>>
    ELSE /\ isGeneratingList' = TRUE
         /\ requests' = Append(requests, [recipes |-> recipes, silent |-> silent])

\* The generate button of the planner (planner-view.tsx 390) and the refresh
\* button of the list (part_013 238, rendered with a list), both disabled
\* during a generation
HandleGenerateShoppingList ==
    /\ effects = <<>>
    /\ pc = "planner" \/ (pc = "shopping" /\ shoppingList # Null)
    /\ ~isGeneratingList
    /\ Len(requests) < MaxRequests
    /\ StartGeneration(plannerRecipes, FALSE)
    /\ calls' = <<>>
    /\ UNCHANGED <<shoppingList, plannerRecipes, shoppingListMeta,
                   lastAutoRequestSignature, timeout, pc, restVars>>
    /\ effects' = DueAfter(FALSE)

\* The callback of setTimeout, lines 344-346
TimerFires ==
    /\ effects = <<>>
    /\ timeout # <<>>
    /\ Len(requests) < MaxRequests
    /\ StartGeneration(timeout[1], TRUE)
    /\ timeout' = <<>>
    /\ calls' = <<>>
    /\ UNCHANGED <<shoppingList, plannerRecipes, shoppingListMeta,
                   lastAutoRequestSignature, pc, restVars>>
    /\ effects' = DueAfter(FALSE)

\* handleGenerateShoppingList after its await, lines 296-311: the request
\* settles, with a list or with an error
ResponseArrives(i, ok) ==
    /\ effects = <<>>
    /\ i \in 1..Len(requests)
    /\ requests' = SubSeq(requests, 1, i - 1) \o SubSeq(requests, i + 1, Len(requests))
    /\ isGeneratingList' = FALSE
    /\ shoppingList' = IF ok THEN GeneratedList(Selections(requests[i].recipes))
                       ELSE shoppingList
    /\ shoppingListMeta' =
          IF ok
          THEN [signature |-> SignatureOfClosure(requests[i].recipes, plannerRecipes),
                isStale |-> FALSE]
          ELSE shoppingListMeta
    /\ pc' = IF ok /\ ~requests[i].silent THEN "shopping" ELSE pc
    /\ calls' = IF requests[i].silent THEN <<>>
                ELSE <<Call("showToast", <<IF ok THEN "success" ELSE "error">>)>>
    /\ UNCHANGED <<plannerRecipes, lastAutoRequestSignature, timeout, restVars>>
    /\ effects' = DueAfter(ok)

\* The effect of lines 314-357, after the cleanup of its previous run has
\* cleared the timer of that run
RunAutoRefreshEffect ==
    /\ effects # <<>>
    /\ Head(effects) = "auto"
    /\ LET isUpToDate ==
               /\ shoppingList # Null
               /\ MetaSignature = <<plannerSignature>>
               /\ MetaIsStale = <<FALSE>>
           markStale ==
               /\ shoppingList # Null
               /\ MetaSignature # <<plannerSignature>>
               /\ MetaIsStale # <<TRUE>>
           schedule ==
               /\ ~isGeneratingList
               /\ lastAutoRequestSignature # <<plannerSignature>>
       IN IF Len(plannerRecipes) = 0
          THEN /\ shoppingList' = Null
               /\ shoppingListMeta' =
                     IF shoppingList # Null THEN Null ELSE shoppingListMeta
               /\ lastAutoRequestSignature' = <<>>
               /\ timeout' = <<>>
          ELSE IF plannerSignature = <<>> \/ isUpToDate
          THEN /\ timeout' = <<>>
               /\ UNCHANGED <<shoppingList, shoppingListMeta,
                              lastAutoRequestSignature>>
          ELSE /\ shoppingListMeta' =
                     IF markStale /\ shoppingListMeta # Null
                     THEN [shoppingListMeta EXCEPT !.isStale = TRUE]
                     ELSE shoppingListMeta
               /\ lastAutoRequestSignature' =
                     IF schedule THEN <<plannerSignature>>
                     ELSE lastAutoRequestSignature
               /\ timeout' = IF schedule THEN <<plannerRecipes>> ELSE <<>>
               /\ UNCHANGED shoppingList
    /\ calls' = <<>>
    /\ UNCHANGED <<plannerRecipes, isGeneratingList, requests, pc, restVars>>
    /\ effects' = Tail(effects) \o DueAfter(FALSE)

\* The effect of lines 359-366
RunStaleResetEffect ==
    /\ effects # <<>>
    /\ Head(effects) = "staleReset"
    /\ shoppingListMeta' =
          IF MetaIsStale = <<TRUE>> /\ MetaSignature = <<plannerSignature>>
          THEN [shoppingListMeta EXCEPT !.isStale = FALSE]
          ELSE shoppingListMeta
    /\ calls' = <<>>
    /\ UNCHANGED <<shoppingList, plannerRecipes, isGeneratingList,
                   lastAutoRequestSignature, timeout, requests, pc, restVars>>
    /\ effects' = Tail(effects) \o DueAfter(FALSE)

\* The steps the page takes by itself
RunEffects == RunAutoRefreshEffect \/ RunStaleResetEffect

\* The steps of the user
UserSteps ==
    \/ \E view \in {"dashboard", "planner", "shopping"} : Navigate(view)
    \/ \E id \in RecipeIds : HandleAddToPlanner(id)
    \/ \E id \in RecipeIds, portions \in 1..MaxPortions :
          HandleUpdatePortions(id, portions)
    \/ \E id \in RecipeIds, day \in PageDays : HandleAssignDay(id, day)
    \/ \E id \in RecipeIds : HandleRemoveFromPlanner(id)
    \/ HandleGenerateShoppingList

NextPage ==
    \/ UserSteps
    \/ RunEffects
    \/ TimerFires
    \/ \E i \in 1..MaxRequests, ok \in BOOLEAN : ResponseArrives(i, ok)

SpecPage == InitPage /\ [][NextPage]_vars

\* The page with a backend that answers every request with a list
NextPageLive ==
    \/ UserSteps
    \/ RunEffects
    \/ TimerFires
    \/ \E i \in 1..MaxRequests : ResponseArrives(i, TRUE)

\* React runs the effects that are due before any other step.  A timer that
\* is pending again and again without being cleared for good fires, and a
\* request in flight is answered, whatever the user does meanwhile: the
\* steps of the user and their effects only delay the two.
SpecPageLive ==
    /\ InitPage
    /\ [][NextPageLive]_vars
    /\ WF_vars(RunEffects)
    /\ SF_vars(TimerFires)
    /\ SF_vars(\E i \in 1..MaxRequests : ResponseArrives(i, TRUE))

----------------------------------------------------------------------------
(* Properties of getRemainingItemsByCategory and countRemainingItems *)

\* The composite key "<category>-<index>" of a position (index below 10)
PositionKey(category, index) == category \o <<"-", Digits[index + 1]>>

\* The key is absent from the checked map or maps to a falsy value
NotTicked(key) == key \notin DOMAIN checkedItems \/ checkedItems[key] = FALSE

ListEntries == IF shoppingList = Null THEN <<>> ELSE shoppingList.entries

\* One-based indices of the items of the k-th category that are not ticked
OpenIn(k) ==
    {i \in 1..Len(ListEntries[k][2]) :
        NotTicked(PositionKey(ListEntries[k][1], i - 1))}

OpenPositions == UNION {{<<k, i>> : i \in OpenIn(k)} : k \in 1..Len(ListEntries)}

TickedPositions ==
    UNION {{<<k, i>> : i \in (1..Len(ListEntries[k][2])) \ OpenIn(k)} :
           k \in 1..Len(ListEntries)}

RemainingComputed == pc \in {"remaining", "counted"}

\* Place of a category of the result in the list
PlaceOf(category) ==
    CHOOSE k \in 1..Len(ListEntries) : ListEntries[k][1] = category

\* C1: the count of the remaining items equals the number of (category, index)
\* positions of the list whose key is absent from checked or maps to false.
C1_CountIsOpenPositions ==
    pc = "counted" => remainingCount = Cardinality(OpenPositions)

\* C1 witness: counted a list with a ticked position, a position whose key maps
\* to false, and something left to buy.
C1_Witness ==
    /\ pc = "counted"
    /\ TickedPositions # {}
    /\ \E p \in OpenPositions :
          PositionKey(ListEntries[p[1]][1], p[2] - 1) \in DOMAIN checkedItems
    /\ remainingCount > 0

\* C2: the item at position i of category c is kept iff checked["c-i"] is not
\* truthy; surviving categories keep the relative order of the list and kept
\* items keep their relative order within the category.
C2_StableFilter ==
    (RemainingComputed /\ shoppingList # Null) =>
        LET R == remaining.entries
        IN /\ \A r \in 1..Len(R) :
                \E k \in 1..Len(ListEntries) : ListEntries[k][1] = R[r][1]
           /\ \A k \in 1..Len(ListEntries) :
                OpenIn(k) # {} => \E r \in 1..Len(R) : R[r][1] = ListEntries[k][1]
           /\ \A r1, r2 \in 1..Len(R) :
                r1 < r2 => PlaceOf(R[r1][1]) < PlaceOf(R[r2][1])
           /\ \A r \in 1..Len(R) :
                LET k == PlaceOf(R[r][1])
                    U == OpenIn(k)
                IN /\ Len(R[r][2]) = Cardinality(U)
                   /\ \A j \in 1..Len(R[r][2]) :
                        \E i \in U :
                            /\ Cardinality({u \in U : u < i}) = j - 1
                            /\ R[r][2][j] = ListEntries[k][2][i]

\* C2 witness: two categories survive, one keeps two different items, and a
\* ticked item was removed.
C2_Witness ==
    /\ pc = "remaining"
    /\ shoppingList # Null
    /\ Len(remaining.entries) = 2
    /\ \E r \in 1..2 :
          /\ Len(remaining.entries[r][2]) = 2
          /\ remaining.entries[r][2][1] # remaining.entries[r][2][2]
    /\ TickedPositions # {}

\* C3: the result holds no category with an empty sequence; a category is in
\* the result iff one of its items is unchecked; with nothing unchecked the
\* result is the empty mapping.
C3_NoEmptyCategory ==
    RemainingComputed =>
        LET R == remaining.entries
        IN /\ \A r \in 1..Len(R) : R[r][2] # <<>>
           /\ \A k \in 1..Len(ListEntries) :
                (\E r \in 1..Len(R) : R[r][1] = ListEntries[k][1])
                    <=> OpenIn(k) # {}
           /\ (OpenPositions = {} => remaining = EmptyObject)

\* C3 witness: two categories with items, every item ticked, empty result.
C3_Witness ==
    /\ pc = "remaining"
    /\ Len(ListEntries) = 2
    /\ \A k \in 1..2 : Len(ListEntries[k][2]) > 0
    /\ OpenPositions = {}
    /\ remaining = EmptyObject

\* C4: for a null list the result is the empty mapping, returned normally, for
\* any checked map, and its count is 0.
C4_NullListIsEmpty ==
    (shoppingList = Null /\ pc # "start") =>
        /\ pc # "threw"
        /\ remaining = EmptyObject
        /\ (pc = "counted" => remainingCount = 0)

\* C4 witness: a null list with a non-empty checked map, counted.
C4_Witness ==
    /\ pc = "counted"
    /\ shoppingList = Null
    /\ \E key \in DOMAIN checkedItems : checkedItems[key]
    /\ remaining = EmptyObject
    /\ remainingCount = 0

\* The checked map with the key mapped to false, and with the key removed
WithFalse(key) ==
    [k \in DOMAIN checkedItems \cup {key} |->
        IF k = key THEN FALSE ELSE checkedItems[k]]

Without(key) == [k \in DOMAIN checkedItems \ {key} |-> checkedItems[k]]

FalseKeys == {key \in DOMAIN checkedItems : checkedItems[key] = FALSE}

\* C16: a key absent from the checked map is equivalent to the key mapped to
\* false: adding an entry with the value false, or removing one, leaves the
\* result of getRemainingItemsByCategory (and so its count) unchanged.
C16_AbsentIsFalse ==
    pc = "remaining" =>
        /\ \A key \in CheckedKeys \ DOMAIN checkedItems :
              LET added == getRemainingItemsByCategory(shoppingList,
                                                       WithFalse(key))
              IN /\ added = remaining
                 /\ countRemainingItems(added) = countRemainingItems(remaining)
        /\ \A key \in FalseKeys :
              LET removed == getRemainingItemsByCategory(shoppingList,
                                                         Without(key))
              IN /\ removed = remaining
                 /\ countRemainingItems(removed) = countRemainingItems(remaining)

\* C16 witness: the checked map holds false for a position of the list and
\* lacks the key of another position; both items are in the result.
C16_Witness ==
    /\ pc = "remaining"
    /\ \E p, q \in OpenPositions :
          /\ PositionKey(ListEntries[p[1]][1], p[2] - 1) \in FalseKeys
          /\ PositionKey(ListEntries[q[1]][1], q[2] - 1)
                \notin DOMAIN checkedItems
    /\ countRemainingItems(remaining) >= 2

\* The list with the items of its k-th category replaced
ReplaceItems(list, k, items) ==
    JSObject([j \in 1..Len(list.entries) |->
                IF j = k THEN <<list.entries[j][1], items>>
                ELSE list.entries[j]])

\* The items at the positions U, in order
Pick(items, U) ==
    [j \in 1..Cardinality(U) |->
        items[CHOOSE i \in U : Cardinality({u \in U : u < i}) = j - 1]]

\* The items a mapping holds for a category, none when the category is absent
ItemsFor(obj, category) ==
    IF HasKey(obj.entries, category)
    THEN (CHOOSE e \in {obj.entries[j] : j \in 1..Len(obj.entries)} :
              e[1] = category)[2]
    ELSE <<>>

\* C17: the positions of a category that survive depend on the category name,
\* its length and the checked map only: whatever items stand in the category,
\* permuted or replaced, the result keeps those at the unchecked positions.
C17_Positional ==
    (pc = "remaining" /\ shoppingList # Null) =>
        \A k \in 1..Len(ListEntries) :
            \A alt \in [1..Len(ListEntries[k][2]) -> Items] :
                LET category == ListEntries[k][1]
                    other == getRemainingItemsByCategory(
                                 ReplaceItems(shoppingList, k, alt),
                                 checkedItems)
                IN /\ ItemsFor(other, category) = Pick(alt, OpenIn(k))
                   /\ Len(ItemsFor(other, category))
                        = Len(ItemsFor(remaining, category))

\* C17 witness: a category of two different items with the first one ticked;
\* the result keeps the second, and with the two swapped it keeps the item
\* that was ticked.
C17_Witness ==
    /\ pc = "remaining"
    /\ shoppingList # Null
    /\ \E k \in 1..Len(ListEntries) :
          LET items == ListEntries[k][2]
              category == ListEntries[k][1]
          IN /\ Len(items) = 2
             /\ items[1] # items[2]
             /\ OpenIn(k) = {2}
             /\ ItemsFor(remaining, category) = <<items[2]>>
             /\ ItemsFor(getRemainingItemsByCategory(
                             ReplaceItems(shoppingList, k,
                                          <<items[2], items[1]>>),
                             checkedItems), category) = <<items[1]>>

----------------------------------------------------------------------------
(* Properties of getNextAvailableDay *)

AssignedNames == {assignedDays[i] : i \in 1..Len(assignedDays)}
WeekNames == {weekDays[i] : i \in 1..Len(weekDays)}

\* One-based place of currentDay in the week
CurrentPlace == CHOOSE i \in 1..Len(weekDays) : weekDays[i] = currentDay

\* The week in circular order from the day after currentDay, wrapping to the
\* first day and ending with currentDay
Rotation ==
    SubSeq(weekDays, CurrentPlace + 1, Len(weekDays))
        \o SubSeq(weekDays, 1, CurrentPlace)

\* C5: with a non-empty week that holds currentDay and fewer distinct assigned
\* names than week days, the result is the first day of the circular order
\* after currentDay that is not assigned.
C5_FirstFreeDayAfterCurrent ==
    (/\ pc = "done"
     /\ Len(weekDays) > 0
     /\ currentDay \in WeekNames
     /\ Cardinality(AssignedNames) < Len(weekDays)) =>
        \E o \in 1..Len(Rotation) :
            /\ Rotation[o] \notin AssignedNames
            /\ \A q \in 1..(o - 1) : Rotation[q] \in AssignedNames
            /\ nextDay.value = Rotation[o]

\* C5 witness: the current day is the last of the week and is assigned, the
\* scan wraps and gives the first day of the week.
C5_Witness ==
    /\ pc = "done"
    /\ Len(weekDays) >= 2
    /\ currentDay = weekDays[Len(weekDays)]
    /\ currentDay \in AssignedNames
    /\ nextDay = Return(weekDays[1], 16)

\* C6: the result is null whenever the number of distinct assigned names is at
\* least the length of the week, members of the week or not; duplicates count
\* once, so the guard does not fire below that number.
C6_NullWhenDistinctCountFull ==
    pc = "done" =>
        /\ (Cardinality(AssignedNames) >= Len(weekDays) => nextDay.value = NoDay)
        /\ (Cardinality(AssignedNames) < Len(weekDays) => nextDay.line # 8)

\* C6 witness: null from the guard although a week day is unassigned, with a
\* duplicated assigned name.
C6_Witness ==
    /\ pc = "done"
    /\ nextDay = Return(NoDay, 8)
    /\ WeekNames \ AssignedNames # {}
    /\ Len(assignedDays) > Cardinality(AssignedNames)

\* C7: for a week of distinct names the result is null only when the week is
\* empty, the distinct assigned count is full or currentDay is not in the
\* week; the fall-through return is never taken.
C7_NullOnlyWhenGuarded ==
    (pc = "done" /\ IsDistinct(weekDays)) =>
        /\ nextDay.line # 20
        /\ (nextDay.value = NoDay =>
                \/ Len(weekDays) = 0
                \/ Cardinality(AssignedNames) >= Len(weekDays)
                \/ currentDay \notin WeekNames)

\* C7 witness: no guard applies and only currentDay is free, so the scan needs
\* the whole rotation and still finds a day.
C7_Witness ==
    /\ pc = "done"
    /\ Len(weekDays) >= 2
    /\ Cardinality(AssignedNames) < Len(weekDays)
    /\ WeekNames \ AssignedNames = {currentDay}
    /\ nextDay = Return(currentDay, 16)

\* C8: the result is null when currentDay is not an element of the week.
C8_NullWhenCurrentDayUnknown ==
    (pc = "done" /\ currentDay \notin WeekNames) => nextDay.value = NoDay

\* C8 witness: a week with room left, asked from a day it does not hold.
C8_Witness ==
    /\ pc = "done"
    /\ currentDay \notin WeekNames
    /\ Len(weekDays) > 0
    /\ AssignedNames # {}
    /\ nextDay = Return(NoDay, 11)

\* C9: the result is null when the week is empty.
C9_NullWhenWeekEmpty ==
    (pc = "done" /\ Len(weekDays) = 0) => nextDay.value = NoDay

\* C9 witness: an empty week with assigned days.
C9_Witness ==
    /\ pc = "done"
    /\ weekDays = <<>>
    /\ assignedDays # <<>>
    /\ nextDay = Return(NoDay, 6)

\* C19: for every input, a week with repeated names and assigned names outside
\* the week included, the call returns; the scan makes at most weekDays.length
\* iterations, every index it reads lies in 0..weekDays.length-1, and the
\* result is null or an element of weekDays.
C19_TotalWithinBounds ==
    /\ pc \in {"start", "done"}
    /\ (pc = "done" =>
          /\ Len(scanReads) <= Len(weekDays)
          /\ \A r \in 1..Len(scanReads) :
                scanReads[r] \in 0..(Len(weekDays) - 1)
          /\ nextDay.value \in {NoDay} \cup WeekNames
          /\ nextDay.line \in {6, 8, 11, 16, 20})

\* C19 witness: a week that repeats its only name, assigned; the scan reads
\* every index once, wrapping around, and falls through to the last return.
C19_Witness ==
    /\ pc = "done"
    /\ Len(weekDays) >= 2
    /\ ~IsDistinct(weekDays)
    /\ AssignedNames \ WeekNames # {}
    /\ Len(scanReads) = Len(weekDays)
    /\ scanReads[Len(scanReads)] < scanReads[1]
    /\ nextDay = Return(NoDay, 20)

\* C27: a non-null result is a name of the week that is not assigned; it
\* differs from the current day when the current day is assigned, and it is
\* the current day only when the current day is unassigned and every other
\* name of the week is assigned.
C27_ResultIsFreeWeekDay ==
    (pc = "done" /\ nextDay.value # NoDay) =>
        /\ nextDay.value \in WeekNames \ AssignedNames
        /\ (currentDay \in AssignedNames => nextDay.value # currentDay)
        /\ (nextDay.value = currentDay =>
              /\ currentDay \notin AssignedNames
              /\ (WeekNames \ {currentDay}) \subseteq AssignedNames)

\* C27 witness: a week of three days whose two other days are assigned; the
\* scan comes back to the unassigned current day.
C27_Witness ==
    /\ pc = "done"
    /\ Len(weekDays) = 3
    /\ Cardinality(AssignedNames \cap WeekNames) = 2
    /\ currentDay \in WeekNames \ AssignedNames
    /\ nextDay = Return(currentDay, 16)

\* The distinct assigned days now and before the first press
AssignedNow == SetOf(getAssignedDays(assignedDays))
AssignedAtFirst == SetOf(getAssignedDays(initialDays))

\* The presses the claim allows: the length of the week less the number of
\* days assigned at first
PressesAllowed == Len(weekDays) - Cardinality(AssignedAtFirst)

\* C28: a press of the next-day button adds one weekday that was not assigned
\* and removes none (handleAssignDay takes its add branch); after p presses
\* the recipe has p more days than at first, p is at most the length of the
\* week less the days assigned at first, and after that many presses no card
\* offers the button any more.
C28_PressAddsOneDay ==
    (pc = "planner" /\ presses > 0) =>
        /\ calls = <<Call("showToast", <<"add">>)>>
        /\ nextDay.value \in SetOf(weekDays) \ AssignedAtFirst
        /\ assignedDays[Len(assignedDays)] = nextDay.value
        /\ AssignedAtFirst \subseteq AssignedNow
        /\ AssignedNow \ AssignedAtFirst \subseteq SetOf(weekDays)
        /\ Cardinality(AssignedNow) = Cardinality(AssignedAtFirst) + presses
        /\ Len(assignedDays) = Len(initialDays) + presses
        /\ presses <= PressesAllowed
        /\ (presses = PressesAllowed =>
                \A day \in SetOf(weekDays) : Offered(day) = NoDay)

\* C28 witness: one of three weekdays was assigned; after two presses the
\* week is full and no card offers the button.
C28_Witness ==
    /\ pc = "planner"
    /\ Len(weekDays) = 3
    /\ Len(initialDays) = 1
    /\ presses = 2
    /\ AssignedNow = SetOf(weekDays)
    /\ \A day \in SetOf(weekDays) : ShownUnder(day) /\ Offered(day) = NoDay

----------------------------------------------------------------------------
(* Properties of getPrintLayoutConfig *)

\* One line per item of the mapping and one per category
LinesOf(rem) ==
    Len(rem.entries)
        + Cardinality(UNION {{<<r, j>> : j \in 1..Len(rem.entries[r][2])} :
                             r \in 1..Len(rem.entries)})

\* C10: fontSize is 12 up to 30 lines, 11 from 31 to 45, 10 from 46 to 60 and
\* 9 from 61 on; the empty mapping gives 12.
C10_FontSizeThresholds ==
    pc = "done" =>
        LET t == LinesOf(remaining)
        IN /\ (t <= 30 => printLayout.fontSize = 12)
           /\ (t >= 31 /\ t <= 45 => printLayout.fontSize = 11)
           /\ (t >= 46 /\ t <= 60 => printLayout.fontSize = 10)
           /\ (t >= 61 => printLayout.fontSize = 9)
           /\ (remaining = EmptyObject => printLayout.fontSize = 12)

\* C10 witness: a mapping of exactly 61 lines printed at size 9.
C10_Witness ==
    /\ pc = "done"
    /\ LinesOf(remaining) = 61
    /\ printLayout.fontSize = 9

\* C11: columns is 3 exactly when the mapping has more than 40 lines (one per
\* item plus one per category) and 2 otherwise.
C11_ColumnsThreshold ==
    pc = "done" =>
        LET t == LinesOf(remaining)
        IN /\ printLayout.columns \in {2, 3}
           /\ (printLayout.columns = 3 <=> t > 40)
           /\ (t = 40 => printLayout.columns = 2)
           /\ (t = 41 => printLayout.columns = 3)

\* C11 witness: 50 items in a single category, 51 lines, 3 columns at size 10.
C11_Witness ==
    /\ pc = "done"
    /\ Len(remaining.entries) = 1
    /\ Len(remaining.entries[1][2]) = 50
    /\ printLayout = [columns |-> 3, fontSize |-> 10]

\* A mapping of t lines: empty, one category, or two categories
MappingOfLines(t) ==
    LET item == [name |-> <<"c">>, amount |-> <<>>]
    IN IF t = 0 THEN EmptyObject
       ELSE IF t <= MaxLayoutItems + 1
       THEN JSObject(<< <<<<"7">>, Copies(item, t - 1)>> >>)
       ELSE JSObject(<< <<<<"7">>, Copies(item, MaxLayoutItems)>>,
                        <<<<"b", "-", "1">>,
                          Copies(item, t - MaxLayoutItems - 2)>> >>)

\* C29: the layout is monotone in the number of lines (with more lines the
\* font size is not larger and the columns are not fewer), and its fields
\* agree: size 12 comes with 2 columns, sizes 10 and 9 with 3 columns, size
\* 11 with 2 columns for 31..40 lines and with 3 columns for 41..45 lines.
C29_MonotoneAndConsistent ==
    pc = "done" =>
        LET t == LinesOf(remaining)
        IN /\ \A u \in 0..(2 * MaxLayoutItems + 2) :
                LET other == getPrintLayoutConfig(MappingOfLines(u))
                IN /\ LinesOf(MappingOfLines(u)) = u
                   /\ (u >= t => /\ other.fontSize <= printLayout.fontSize
                                 /\ other.columns >= printLayout.columns)
                   /\ (u <= t => /\ other.fontSize >= printLayout.fontSize
                                 /\ other.columns <= printLayout.columns)
           /\ (printLayout.fontSize = 12 => printLayout.columns = 2)
           /\ (printLayout.fontSize \in {9, 10} => printLayout.columns = 3)
           /\ (printLayout.fontSize = 11 =>
                 /\ (printLayout.columns = 2 <=> t \in 31..40)
                 /\ (printLayout.columns = 3 <=> t \in 41..45))
           /\ getPrintLayoutConfig(MappingOfLines(31)).columns = 2
           /\ getPrintLayoutConfig(MappingOfLines(40)).columns = 2
           /\ getPrintLayoutConfig(MappingOfLines(41)).columns = 3
           /\ getPrintLayoutConfig(MappingOfLines(45)).columns = 3
           /\ \A u \in {31, 40, 41, 45} :
                getPrintLayoutConfig(MappingOfLines(u)).fontSize = 11

\* C29 witness: 43 lines in two categories, printed at size 11 in 3 columns.
C29_Witness ==
    /\ pc = "done"
    /\ Len(remaining.entries) = 2
    /\ LinesOf(remaining) = 43
    /\ printLayout = [columns |-> 3, fontSize |-> 11]

----------------------------------------------------------------------------
(* Properties of buildShareText *)

Blank(str) == \A i \in 1..Len(str) : str[i] \in {" ", "\t", "\n", "\r"}

\* A string without the blanks at its two ends
Stripped(str) ==
    IF Blank(str) THEN <<>>
    ELSE LET first == CHOOSE i \in 1..Len(str) :
                        /\ ~Blank(<<str[i]>>)
                        /\ Blank(SubSeq(str, 1, i - 1))
             last == CHOOSE i \in 1..Len(str) :
                        /\ ~Blank(<<str[i]>>)
                        /\ Blank(SubSeq(str, i + 1, Len(str)))
         IN SubSeq(str, first, last)

\* The lines, each followed by a newline except the last
RECURSIVE Lines(_)
Lines(ls) ==
    IF Len(ls) = 0 THEN <<>>
    ELSE IF Len(ls) = 1 THEN ls[1]
    ELSE Lines(SubSeq(ls, 1, Len(ls) - 1)) \o <<"\n">> \o ls[Len(ls)]

Parenthesised(amount) == <<" ", "(">> \o amount \o <<")">>

\* "- " + name, with " (amount)" when the amount is not blank
LineIfTrimmed(item) ==
    <<"-", " ">> \o item.name
        \o (IF Blank(item.amount) THEN <<>> ELSE Parenthesised(item.amount))

\* "- " + name, with " (amount)" when the amount is not empty
LineIfNonEmpty(item) ==
    <<"-", " ">> \o item.name
        \o (IF item.amount = <<>> THEN <<>> ELSE Parenthesised(item.amount))

\* Header, then per category a blank line, its name and its item lines
RECURSIVE BlocksIfTrimmed(_)
BlocksIfTrimmed(entries) ==
    IF Len(entries) = 0 THEN <<>>
    ELSE << <<>>, entries[1][1] >>
            \o [i \in 1..Len(entries[1][2]) |-> LineIfTrimmed(entries[1][2][i])]
            \o BlocksIfTrimmed(Tail(entries))

RECURSIVE BlocksIfNonEmpty(_)
BlocksIfNonEmpty(entries) ==
    IF Len(entries) = 0 THEN <<>>
    ELSE << <<>>, entries[1][1] >>
            \o [i \in 1..Len(entries[1][2]) |-> LineIfNonEmpty(entries[1][2][i])]
            \o BlocksIfNonEmpty(Tail(entries))

ItemsOf(rem) ==
    UNION {{<<r, j>> : j \in 1..Len(rem.entries[r][2])} :
           r \in 1..Len(rem.entries)}

\* C12 (as claimed): an item whose amount is empty or only whitespace is
\* rendered as "- " + name without parentheses; the suffix " (amount)" appears
\* only for an amount that is non-empty after trimming.
C12_BlankAmountSuppressed ==
    pc = "done" =>
        shareText = Stripped(Lines(<<Header>> \o BlocksIfTrimmed(remaining.entries)))

\* C13 (as claimed): the text is the header, then per category a blank line,
\* the category name and one line "- " + name (plus suffix) per item, joined
\* with single newlines.
C13_LinesJoined ==
    pc = "done" =>
        shareText = Lines(<<Header>> \o BlocksIfNonEmpty(remaining.entries))

\* C13 (amended): the text is those lines joined with single newlines and then
\* trimmed at both ends; there is one item line per remaining item.
C13_LinesJoinedThenTrimmed ==
    pc = "done" =>
        LET expected == <<Header>> \o BlocksIfNonEmpty(remaining.entries)
        IN /\ shareText = Stripped(Lines(expected))
           /\ Len(expected) =
                1 + 2 * Len(remaining.entries) + countRemainingItems(remaining)
           /\ Cardinality(ItemsOf(remaining)) = countRemainingItems(remaining)

\* C13 witness: two categories with items, amounts given, nothing to trim.
C13_Witness ==
    /\ pc = "done"
    /\ Len(remaining.entries) = 2
    /\ \A r \in 1..2 : Len(remaining.entries[r][2]) = 2
    /\ \A p \in ItemsOf(remaining) :
          remaining.entries[p[1]][2][p[2]].amount = <<"2">>
    /\ shareText = Lines(<<Header>> \o BlocksIfNonEmpty(remaining.entries))

\* C14: the text neither begins nor ends with whitespace or a newline, and for
\* the empty mapping it is exactly the header line.
C14_TextIsTrimmed ==
    pc = "done" =>
        /\ Len(shareText) > 0
        /\ ~Blank(<<shareText[1]>>)
        /\ ~Blank(<<shareText[Len(shareText)]>>)
        /\ (remaining = EmptyObject => shareText = Header)

\* C14 witness: the last item has an empty name and no amount, so the joined
\* lines end with a space that the text does not have.
C14_Witness ==
    /\ pc = "done"
    /\ Len(remaining.entries) > 0
    /\ LET items == remaining.entries[Len(remaining.entries)][2]
       IN /\ Len(items) > 0
          /\ items[Len(items)] = [name |-> <<>>, amount |-> <<>>]
    /\ shareText[Len(shareText)] = "-"

----------------------------------------------------------------------------
(* Properties of ShoppingView *)

\* Category names made of digits and hyphens, each a prefix or a key of
\* another, and indices of one and of two digits
HyphenatedNames ==
    {<<"7">>, <<"7", "-">>, <<"7", "-", "0">>, <<"7", "-", "1">>,
     <<"7", "1">>, <<"7", "-", "1", "0">>, <<"7", "-", "1", "-", "0">>,
     <<"-">>, <<"-", "0">>, <<"1">>, <<"1", "0">>, <<"0">>}

HyphenatedPositions == HyphenatedNames \X {0, 1, 10}

\* C25: two distinct positions (category, index) never have the same key,
\* also for category names with hyphens and digits, so that the toggle of one
\* position of the list leaves the status of every other position as it was.
C25_KeysInjective ==
    /\ pc = "unmounted" =>
          \A p \in HyphenatedPositions : \A q \in HyphenatedPositions :
              ItemKey(p[1], p[2]) = ItemKey(q[1], q[2]) => p = q
    /\ pc = "mounted" =>
          \A p \in Positions(shoppingList) : \A q \in Positions(shoppingList) :
              p # q =>
                  /\ ItemKey(p[1], p[2]) # ItemKey(q[1], q[2])
                  /\ IsChecked(Toggle(NextChecked, ItemKey(p[1], p[2])),
                               ItemKey(q[1], q[2]))
                        = IsChecked(NextChecked, ItemKey(q[1], q[2]))

\* C25 witness: the list has the categories "7" and "7-1", the key "7-1" of
\* no position of it is ticked, and the item of "7-1" was toggled alone.
C25_Witness ==
    /\ pc = "mounted"
    /\ Positions(shoppingList) = {<<<<"7">>, 0>>, <<ItemKey(<<"7">>, 1), 0>>}
    /\ pendingChecked # <<>>
    /\ IsChecked(checkedItems, ItemKey(<<"7">>, 1))
    /\ ~IsChecked(checkedItems, ItemKey(ItemKey(<<"7">>, 1), 0))
    /\ pendingChecked[1] = Toggle(checkedItems, ItemKey(ItemKey(<<"7">>, 1), 0))

\* The remaining count of the current list under a checked map
CountUnder(checked) ==
    countRemainingItems(getRemainingItemsByCategory(shoppingList, checked))

\* C26: a toggle of a position of the list changes the remaining count by
\* one (down when the item was unchecked, up when it was checked) and leaves
\* the status of every other key as it was; a second toggle of the same
\* position gives back the remaining items of before the first, with the key
\* present in the map (false where it was absent).
C26_ToggleChangesCountByOne ==
    [][\A p \in Positions(shoppingList) :
        (effects' = effects /\ pendingChecked' # <<>> /\ ToggleItem(p[1], p[2])) =>
            LET key == ItemKey(p[1], p[2])
                before == NextChecked
                after == NextChecked'
                again == Toggle(after, key)
            IN /\ CountUnder(after)
                    = CountUnder(before) + (IF IsChecked(before, key) THEN 1 ELSE -1)
               /\ \A k \in (DOMAIN before \cup DOMAIN after) \ {key} :
                    IsChecked(after, k) = IsChecked(before, k)
               /\ getRemainingItemsByCategory(shoppingList, again)
                    = getRemainingItemsByCategory(shoppingList, before)
               /\ key \in DOMAIN again
               /\ again[key] = IsChecked(before, key)
               /\ (key \notin DOMAIN before => again # before)]_vars

\* C26 witness: the second item was toggled twice since the last render; its
\* key, absent from the rendered map, is now present with the value false.
C26_Witness ==
    /\ pc = "mounted"
    /\ effects = <<>>
    /\ <<<<"7">>, 1>> \in Positions(shoppingList)
    /\ ItemKey(<<"7">>, 1) \notin DOMAIN checkedItems
    /\ pendingChecked = <<Toggle(Toggle(checkedItems, ItemKey(<<"7">>, 1)),
                                 ItemKey(<<"7">>, 1))>>
    /\ ~pendingChecked[1][ItemKey(<<"7">>, 1)]
    /\ CountUnder(pendingChecked[1]) = CountUnder(checkedItems)

\* C23: the persisted record never pairs a signature with flags recorded
\* under another one: in every state, also between the effects of one render,
\* the items of the stored record were ticked or restored while the signature
\* of the record was the current one.
C23_StoredFlagsOfSignature ==
    (storage \notin {Null, Unparsable} /\ storage.items # <<>>) =>
        origin.stored \subseteq {storage.signature}

\* The state C23 fails in: the signature changed from "A" to "B" while an item
\* ticked under "A" was set; the load effect has queued the reset, the save
\* effect of the same render has written the flags of "A" under "B".
C23_OldFlagsUnderNewSignature ==
    /\ pc = "mounted"
    /\ effects = <<>>
    /\ listSignature = "B"
    /\ pendingChecked = << <<>> >>
    /\ checkedCount(checkedItems) = 1
    /\ storage = Stored("B", <<checkedItems>>)
    /\ origin.stored = {"A"}

\* The keys of the positions of the current list
PositionKeys == {ItemKey(p[1], p[2]) : p \in Positions(shoppingList)}

\* C24: in every render of the view with a list, the header counters agree
\* with the derived count (totalItems - checkedCount is the remaining count),
\* the 'all bought' state is shown exactly when the remaining count is 0, and
\* every truthy key of the checked map is the key of a position of the list.
C24_CountersAgree ==
    (pc \in {"mounted", "flushing"} /\ shoppingList # Null) =>
        /\ totalItems(shoppingList) - checkedCount(checkedItems) = remainingCount
        /\ AllBought(shoppingList, checkedItems) <=> remainingCount = 0
        /\ \A k \in DOMAIN checkedItems : checkedItems[k] => k \in PositionKeys

\* The state C24 fails in: the list was given again under the signature of
\* the saved flags with one item instead of two, the second was ticked.
C24_RegeneratedShorter ==
    /\ pc = "mounted"
    /\ effects = <<>>
    /\ pendingChecked = <<>>
    /\ storage = Stored(listSignature, <<checkedItems>>)
    /\ origin.checked = {listSignature}
    /\ totalItems(shoppingList) = 1
    /\ checkedItems = (ItemKey(<<"7">>, 1) :> TRUE)
    /\ remainingCount = 1
    /\ AllBought(shoppingList, checkedItems)

\* The last step was a share or an export, and what it called first
LastCallIs(apis) == calls # <<>> /\ calls[1].api \in apis

\* C21: what the share and export handlers pass on is derived from the list
\* and the checked map of the current render: the text given to the share or
\* clipboard API is buildShareText of their remaining items, the section
\* printed holds those remaining items, and with a remaining count of 0 a
\* handler makes one call only, the info toast.
C21_ActionsUseCurrentRemaining ==
    LET current == getRemainingItemsByCategory(shoppingList, checkedItems)
    IN calls # <<>> =>
        /\ pc = "mounted"
        /\ remaining = current
        /\ remainingCount = countRemainingItems(current)
        /\ IF countRemainingItems(current) = 0
           THEN calls = <<Call("showToast", <<"info">>)>>
           ELSE /\ calls[1].api \in ShareApis \cup {"window.print"}
                /\ (calls[1].api \in ShareApis =>
                        calls[1].text = buildShareText(current))
                /\ \A i \in 2..Len(calls) :
                        /\ calls[i].api = "showToast"
                        /\ calls[i].text # <<"info">>

\* C21 witness: the first of two items was ticked and rendered, and the text
\* shared is that of the one item left.
C21_Witness ==
    /\ LastCallIs({"navigator.share"})
    /\ Len(shoppingList.entries) = 1
    /\ Len(shoppingList.entries[1][2]) = 2
    /\ IsChecked(checkedItems, ItemKey(<<"7">>, 0))
    /\ remainingCount = 1
    /\ calls[1].text = buildShareText(remaining)
    /\ calls[2] = Call("showToast", <<"success">>)

\* C21 witness of the empty case: every item is ticked and the export shows
\* the info toast.
C21_WitnessNothingLeft ==
    /\ calls = <<Call("showToast", <<"info">>)>>
    /\ shoppingList # Null
    /\ remainingCount = 0

LoadEffectHasRun ==
    /\ pc \in {"mounted", "flushing"}
    /\ (effects = <<>> \/ Head(effects) # "load")

RecordCarries(signature) ==
    /\ storage \notin {Null, Unparsable}
    /\ storage.signature = signature

----------------------------------------------------------------------------
(* Properties of the page: generations and the signature of the list *)

\* The list of the state is shown as up to date: isUpToDate of line 324
UpToDate ==
    /\ shoppingList # Null
    /\ MetaSignature = <<plannerSignature>>
    /\ MetaIsStale = <<FALSE>>

\* The step starts a generation, silent or not
StartsGeneration(silent) ==
    /\ Len(requests') = Len(requests) + 1
    /\ requests'[Len(requests')].silent = silent

\* The step receives the list of the request at index i
ReceivesList(i) ==
    /\ i \in 1..Len(requests)
    /\ ResponseArrives(i, TRUE)

\* C30: an automatic (silent) generation starts only in a state with no
\* generation in flight; the signature stored with a received list is the
\* signature of the planner the request was built from, and the list is the
\* one generated for that planner; so in every state, a list shown as up to
\* date is the list generated for the planner of that state.
C30_GenerationsDoNotOverlapOrMix ==
    /\ [](UpToDate => shoppingList = GeneratedList(Selections(plannerRecipes)))
    /\ [][/\ StartsGeneration(TRUE) => (requests = <<>> /\ ~isGeneratingList)
          /\ \A i \in 1..MaxRequests :
                ReceivesList(i) =>
                  /\ shoppingListMeta'.signature =
                        buildPlannerSignature(requests[i].recipes)
                  /\ shoppingList' =
                        GeneratedList(Selections(requests[i].recipes))]_vars

\* C30 witness: the list of a generation started by the button has just
\* arrived (its toast is shown), and the planner changed during the request:
\* the stored signature is not that of the planner
C30_Witness ==
    /\ calls = <<Call("showToast", <<"success">>)>>
    /\ pc = "shopping"
    /\ shoppingList # Null
    /\ plannerRecipes # <<>>
    /\ MetaSignature # <<plannerSignature>>
    /\ MetaIsStale = <<FALSE>>

\* An automatic generation is in flight
C30_WitnessSilent ==
    /\ requests # <<>>
    /\ requests[1].silent
    /\ isGeneratingList


\* The planner is the given one and its signature is not that of the list
\* of the state, which is not marked stale
Diverged(recipes) ==
    /\ plannerRecipes = recipes
    /\ shoppingList # Null
    /\ MetaSignature # <<>>
    /\ MetaSignature # <<buildPlannerSignature(recipes)>>
    /\ MetaIsStale = <<FALSE>>

\* C22: once the planner has a signature other than that of the non-stale
\* list, and as long as the planner stays as it is, the list becomes up to
\* date, with a backend that answers every request with a list.
C22_DivergedListIsRefreshed ==
    \A recipes \in Planners \ {<<>>} :
        Diverged(recipes) ~> (UpToDate \/ plannerRecipes # recipes)

\* The page at rest with a list marked stale: the signature of the planner is
\* recorded as requested, but no timer is pending, no generation is in
\* flight and no effect is due
C22_TimerLost ==
    /\ effects = <<>>
    /\ shoppingList # Null
    /\ MetaIsStale = <<TRUE>>
    /\ MetaSignature # <<plannerSignature>>
    /\ lastAutoRequestSignature = <<plannerSignature>>
    /\ timeout = <<>>
    /\ requests = <<>>
    /\ ~isGeneratingList

====
